---- MODULE Spec2Model ----
(***************************************************************************)
(* Export job pipeline of the data-export-service: the ledger of export    *)
(* jobs (models/export_model.py), the create / status routes               *)
(* (routes/export_routes.py), the worker task and the retention sweep      *)
(* (workers/export_worker.py, services/export_service.py), the storage     *)
(* helper (services/s3_service.py) and the dashboard's manual retry and    *)
(* cancel (services/dashboard_service.py).                                 *)
(*                                                                         *)
(* Python strings that the code inspects character by character (table     *)
(* names, date strings) are sequences of one-character strings.            *)
(***************************************************************************)
EXTENDS Integers, Sequences, FiniteSets, Bags, TLC

VARIABLES
    exports,       \* the rows of table `exports` (a set of Export records)
    next_id,       \* the next primary key / reference_id the ledger hands out
    queue,         \* bag of export_task messages held by the broker or a worker
    clock,         \* days elapsed since the service started
    redeliveries,  \* number of broker redeliveries so far
    s3,            \* the upload S3Service.upload_file is carrying out
    handlers,      \* the create requests being served, one per request thread
    last           \* the last operation served: its name, its input, its answer

vars == <<exports, next_id, queue, clock, redeliveries, s3, handlers, last>>

-----------------------------------------------------------------------------
(* Bounds of the model *)

\* rows ever inserted into the ledger
MaxJobs == 2
\* last day the clock can reach
MaxClock == 31
\* broker redeliveries (worker lost before the acknowledgement)
MaxRedeliver == 1
\* how many times a stored file_url may have been replaced by a signed URL
MaxSignDepth == 1
\* the largest retry number the backoff is computed for
MaxBackoffArg == 8
\* the largest file uploaded, in chunks of the multipart upload
MaxChunks == 3
MaxHandlers == 2
MaxRows == 7
MaxChunkRows == 4
MaxCreateJobs == 3

(* Program constants *)
MAX_RETRY_ATTEMPTS == 3
PRESIGNED_URL_EXPIRATION == 86400
max_retries == 3
RETENTION_DAYS == 30

\* Python's None and a present value, for the nullable columns and results
None == <<>>
Some(x) == <<x>>

-----------------------------------------------------------------------------
(* Characters and strings *)

Digit == {"0", "1", "2", "3", "4", "5", "6", "7", "8", "9"}
Letter ==
    {"a", "b", "c", "d", "e", "f", "g", "h", "i", "j", "k", "l", "m",
     "n", "o", "p", "q", "r", "s", "t", "u", "v", "w", "x", "y", "z",
     "A", "B", "C", "D", "E", "F", "G", "H", "I", "J", "K", "L", "M",
     "N", "O", "P", "Q", "R", "S", "T", "U", "V", "W", "X", "Y", "Z"}

DigitVal(c) ==
    CASE c = "0" -> 0 [] c = "1" -> 1 [] c = "2" -> 2 [] c = "3" -> 3
      [] c = "4" -> 4 [] c = "5" -> 5 [] c = "6" -> 6 [] c = "7" -> 7
      [] c = "8" -> 8 [] c = "9" -> 9

RECURSIVE IntOf(_)
\* int(s) of a string of digits
IntOf(s) ==
    IF s = <<>> THEN 0
    ELSE 10 * IntOf(SubSeq(s, 1, Len(s) - 1)) + DigitVal(s[Len(s)])

AllDigits(s) == \A i \in 1..Len(s) : s[i] \in Digit

-----------------------------------------------------------------------------
(* datetime.date *)

IsLeap(y) == (y % 4 = 0) /\ ((y % 100 # 0) \/ (y % 400 = 0))

DaysInMonth(y, m) ==
    IF m = 2 THEN (IF IsLeap(y) THEN 29 ELSE 28)
    ELSE IF m \in {4, 6, 9, 11} THEN 30 ELSE 31

RECURSIVE DaysBeforeMonth(_, _)
DaysBeforeMonth(y, m) ==
    IF m = 1 THEN 0 ELSE DaysBeforeMonth(y, m - 1) + DaysInMonth(y, m - 1)

\* date(y, m, d).toordinal()
ToOrdinal(y, m, d) ==
    LET p == y - 1
    IN  p * 365 + (p \div 4) - (p \div 100) + (p \div 400)
          + DaysBeforeMonth(y, m) + d

\* datetime.strptime(s, '%Y-%m-%d').date(): Some(ordinal of the date), or
\* None where strptime raises ValueError.  %Y is exactly four digits, %m and
\* %d are one or two digits (a leading zero is optional), the separators are
\* literal '-', and the (year, month, day) must exist in the calendar.
strptime_date(s) ==
    LET L == Len(s)
        shapes == {sh \in {<<1, 1>>, <<1, 2>>, <<2, 1>>, <<2, 2>>} :
                     /\ L = 4 + 1 + sh[1] + 1 + sh[2]
                     /\ s[5] = "-"
                     /\ s[6 + sh[1]] = "-"
                     /\ AllDigits(SubSeq(s, 1, 4))
                     /\ AllDigits(SubSeq(s, 6, 5 + sh[1]))
                     /\ AllDigits(SubSeq(s, 7 + sh[1], L))}
    IN  IF shapes = {} THEN None
        ELSE LET sh == CHOOSE x \in shapes : TRUE
                 y == IntOf(SubSeq(s, 1, 4))
                 m == IntOf(SubSeq(s, 6, 5 + sh[1]))
                 d == IntOf(SubSeq(s, 7 + sh[1], L))
             IN  IF /\ y >= 1
                    /\ m \in 1..12
                    /\ d >= 1
                    /\ d <= DaysInMonth(y, m)
                 THEN Some(ToOrdinal(y, m, d))
                 ELSE None

-----------------------------------------------------------------------------
(* services/s3_service.py and services/export_service.py: pure helpers *)

\* re.match(r'^[a-zA-Z_][a-zA-Z0-9_]*$', table_name); '$' also matches just
\* before one trailing newline.
is_valid_table_name(table_name) ==
    LET n == Len(table_name)
        body == IF n >= 2 /\ table_name[n] = "\n" THEN n - 1 ELSE n
    IN  /\ n >= 1
        /\ table_name[1] \in Letter \cup {"_"}
        /\ \A i \in 2..body : table_name[i] \in Letter \cup Digit \cup {"_"}

\* f"exports/{table_name}/{date_from}_{date_to}/{reference_id}.csv"
generate_s3_key(table_name, date_from, date_to, reference_id) ==
    [table_name |-> table_name, date_from |-> date_from,
     date_to |-> date_to, reference_id |-> reference_id]

S3_BUCKET == "statement-exports"

\* f"s3://{self.bucket_name}/{s3_key}", the value upload_file returns
s3_url_of(s3_key) == [scheme |-> "s3", bucket |-> S3_BUCKET, key |-> s3_key]

\* The key generate_presigned_url and delete_file address: the path of an
\* s3:// URL, and otherwise the whole string taken as a key.
s3_key_of(s3_url) == IF s3_url.scheme = "s3" THEN s3_url.key ELSE s3_url

\* variant of presigned_url_of that hands the stored location back unsigned
presigned_url_of_unsigned(s3_url) == s3_url

\* the signed, time-limited URL boto3 builds for a key
presigned_url_of(s3_url) ==
    [scheme |-> "https", bucket |-> S3_BUCKET, key |-> s3_key_of(s3_url),
     expires |-> PRESIGNED_URL_EXPIRATION]

\* generate_presigned_url(file_url): Some(signed URL), or None where it
\* raises (file_url is None: AttributeError; boto3 fails: ClientError).
generate_presigned_url(file_url, mint_ok) ==
    IF file_url = None \/ ~mint_ok THEN None
    ELSE Some(presigned_url_of(file_url[1]))

RECURSIVE SignDepth(_)
\* how many signed URLs are nested in a URL
SignDepth(url) ==
    IF url.scheme = "s3" THEN 0
    ELSE 1 + (IF "scheme" \in DOMAIN url.key THEN SignDepth(url.key) ELSE 0)

-----------------------------------------------------------------------------
(* models/export_model.py *)

ExportStatus == {"PENDING", "IN_PROGRESS", "COMPLETED", "FAILED", "SUPERSEDED"}

\* Export(...) with the column defaults
Export(id, table_name, date_from, date_to, dedup_key, now) ==
    [reference_id |-> id,
     table_name |-> table_name,
     date_from |-> date_from,
     date_to |-> date_to,
     dedup_key |-> dedup_key,
     status |-> "PENDING",
     file_url |-> None,
     file_size |-> None,
     row_count |-> None,
     retry_count |-> 0,
     error_message |-> None,
     created_at |-> now,
     started_at |-> None,
     completed_at |-> None]

\* Export.query.filter_by(reference_id=...).first(): the set holding the row,
\* or the empty set
by_reference(rows, reference_id) ==
    {e \in rows : e.reference_id = reference_id}

\* the ledger with row `old` replaced by `new`
Replace(rows, old, new) == (rows \ {old}) \cup {new}

-----------------------------------------------------------------------------
(* The request bodies, table names and dates the model draws from *)

bank == <<"b", "a", "n", "k">>
bad_table == <<"1", "b", "a", "d", ";", "D", "R", "O", "P">>

d_jan01 == <<"2", "0", "2", "4", "-", "0", "1", "-", "0", "1">>
d_jan1 == <<"2", "0", "2", "4", "-", "1", "-", "1">>
d_jan31 == <<"2", "0", "2", "4", "-", "0", "1", "-", "3", "1">>
d_slash == <<"2", "0", "2", "4", "/", "0", "1", "/", "0", "1">>
d_jun15 == <<"2", "0", "2", "4", "-", "0", "6", "-", "1", "5">>

\* date.today() on the day the service started and `clock` days later
StartDay == ToOrdinal(2024, 6, 15)
today == StartDay + clock

Body(t, f, u) == [table_name |-> t, date_from |-> f, date_to |-> u]
Forced(b) == [x \in DOMAIN b \cup {"force_refresh"} |->
                IF x = "force_refresh" THEN TRUE ELSE b[x]]

Requests ==
    {Body(bank, d_jan01, d_jun15),
     Forced(Body(bank, d_jan01, d_jun15)),
     Body(bad_table, d_jan1, d_jan31),
     Body(bank, d_slash, d_jun15),
     Body(bank, d_jun15, d_jan01),
     [table_name |-> bank]}

\* strptime_date of the date strings in use, computed once
parsed == [s \in {d_jan01, d_jan1, d_jan31, d_slash, d_jun15} |->
             strptime_date(s)]

\* the artifacts an export run can produce: its row total and its size
Artifacts == {[row_count |-> 2, file_size |-> 64]}

-----------------------------------------------------------------------------
(* routes/export_routes.py: create_export *)

\* hashlib.sha256(f"{table_name}|{date_from_str}|{date_to_str}").hexdigest():
\* the digest stands for the string it was computed from
dedup_key_of(table_name, date_from_str, date_to_str) ==
    <<"sha256", table_name \o <<"|">> \o date_from_str \o <<"|">> \o date_to_str>>

\* variants of should_create_new: one that never looks for a job to reuse,
\* one that ignores force_refresh
should_create_new_always(force_refresh, date_to, day) == TRUE

should_create_new_unforced(force_refresh, date_to, day) == date_to = day

should_create_new(force_refresh, date_to, day) ==
    force_refresh \/ date_to = day

\* the rows among which the COMPLETED lookup's .first() picks
existing_completed(rows, dedup_key) ==
    {e \in rows : e.dedup_key = dedup_key /\ e.status = "COMPLETED"}

\* the bulk UPDATE ... SET status = SUPERSEDED
mark_superseded(rows, dedup_key) ==
    {IF e.dedup_key = dedup_key /\ e.status \in {"COMPLETED", "FAILED"}
        THEN [e EXCEPT !.status = "SUPERSEDED"]
        ELSE e : e \in rows}

\* variant of rows_after_create that supersedes whatever the request is
rows_after_create_superseding(rows, create_new, dedup_key, new_export) ==
    mark_superseded(rows, dedup_key) \cup {new_export}

\* the rows the request commits when it creates a new job
rows_after_create(rows, create_new, dedup_key, new_export) ==
    (IF create_new THEN mark_superseded(rows, dedup_key) ELSE rows)
        \cup {new_export}

\* the row the reuse path commits
reused_row(existing_export, presigned_url) ==
    [existing_export EXCEPT !.file_url = Some(presigned_url)]

Min(a, b) == IF a <= b THEN a ELSE b

\* variant of countdown that grows by 60 per retry
countdown_linear(retries) == Min(60 * (retries + 1), 300)

\* export_task: min(60 * (2 ** self.request.retries), 300)
countdown(retries) == Min(60 * (2 ^ retries), 300)

\* the message the broker receives: export_task.delay(reference_id) sends
\* retries = 0 for immediate delivery, self.retry sends retries + 1 with
\* the countdown computed from the retries of the failed execution
Message(reference_id, retries) ==
    [reference_id |-> reference_id, retries |-> retries,
     countdown |-> IF retries = 0 THEN 0 ELSE countdown(retries - 1),
     phase |-> "queued", loaded |-> None]

\* variant of delay that publishes the message twice
delay_twice(q, reference_id) ==
    q (+) SetToBag({Message(reference_id, 0)})
      (+) SetToBag({Message(reference_id, 0)})

delay(q, reference_id) == q (+) SetToBag({Message(reference_id, 0)})

\* the validation at the head of create_export: Some(error message) when
\* the request is turned away, None when it passes
validation_error(data) ==
    IF "table_name" \notin DOMAIN data
    THEN Some("Missing required field: table_name")
    ELSE IF "date_from" \notin DOMAIN data
    THEN Some("Missing required field: date_from")
    ELSE IF "date_to" \notin DOMAIN data
    THEN Some("Missing required field: date_to")
    ELSE IF parsed[data.date_from] = None \/ parsed[data.date_to] = None
    THEN Some("Invalid date format. Use YYYY-MM-DD")
    ELSE IF parsed[data.date_from][1] > parsed[data.date_to][1]
    THEN Some("date_from cannot be after date_to")
    ELSE None

create_export(data) ==
    LET answer(code, body, mint, commit, enqueue) ==
            [op |-> "create_export", req |-> data, code |-> code,
             body |-> body, mint |-> mint, commit |-> commit,
             enqueue |-> enqueue]
        error == validation_error(data)
    IN
    IF error # None
    THEN /\ last' = answer(400, [error |-> error[1]],
                           "not_called", "not_called", "not_called")
         /\ UNCHANGED <<exports, next_id, queue, clock, s3, handlers, redeliveries>>
    ELSE
    LET table_name == data.table_name
        force_refresh == IF "force_refresh" \in DOMAIN data
                         THEN data.force_refresh ELSE FALSE
        date_from == parsed[data.date_from]
        date_to == parsed[data.date_to]
        dedup_key == dedup_key_of(table_name, data.date_from, data.date_to)
        create_new == should_create_new(force_refresh, date_to[1], today)
        found == IF create_new THEN {}
                 ELSE existing_completed(exports, dedup_key)
        new_export == Export(next_id, table_name, date_from[1], date_to[1],
                             dedup_key, clock)
        mint == IF found = {} THEN "not_called" ELSE "failed"
    IN
    \* mint_ok: whether boto3 signs the URL (asked only for a found job);
    \* commit_ok, enqueue_ok: whether the ledger commit and the broker accept
    \E mint_ok \in (IF found = {} THEN {FALSE} ELSE BOOLEAN) :
    \/ \E existing_export \in found :
         LET presigned_url ==
                 generate_presigned_url(existing_export.file_url, mint_ok)
         IN  /\ presigned_url # None
             /\ SignDepth(presigned_url[1]) <= MaxSignDepth
             /\ \E commit_ok \in BOOLEAN :
                  IF commit_ok
                  THEN /\ exports' = Replace(exports, existing_export,
                              reused_row(existing_export, presigned_url[1]))
                       /\ last' = answer(200,
                              [reference_id |-> existing_export.reference_id,
                               status |-> existing_export.status,
                               reused |-> TRUE,
                               file_url |-> presigned_url[1]],
                              "ok", "ok", "not_called")
                  ELSE /\ exports' = exports
                       /\ last' = answer(500,
                              [error |-> "Internal server error"],
                              "ok", "failed", "not_called")
             /\ UNCHANGED <<next_id, queue, clock, s3, handlers, redeliveries>>
    \/ \E commit_ok \in BOOLEAN :
       \E enqueue_ok \in (IF commit_ok THEN BOOLEAN ELSE {FALSE}) :
       /\ \/ found = {}
          \/ \E existing_export \in found :
               generate_presigned_url(existing_export.file_url, mint_ok) = None
       /\ next_id <= MaxJobs
       /\ IF ~commit_ok
          THEN /\ last' = answer(500, [error |-> "Internal server error"],
                                 mint, "failed", "not_called")
               /\ UNCHANGED <<exports, next_id, queue, clock, s3, handlers, redeliveries>>
          ELSE /\ exports' = rows_after_create(exports, create_new, dedup_key,
                                               new_export)
               /\ next_id' = next_id + 1
               /\ IF enqueue_ok
                  THEN /\ queue' = delay(queue, new_export.reference_id)
                       /\ last' = answer(201,
                                    [reference_id |-> new_export.reference_id,
                                     status |-> new_export.status,
                                     reused |-> FALSE],
                                    mint, "ok", "ok")
                  ELSE /\ queue' = queue
                       /\ last' = answer(500,
                                    [error |-> "Internal server error"],
                                    mint, "ok", "failed")
               /\ UNCHANGED <<clock, s3, handlers, redeliveries>>

\* variant of get_export_status that stores the URL it minted on the job,
\* as the reuse path of create_export does
get_export_status_storing(reference_id, mint_ok) ==
    \E export \in by_reference(exports, reference_id) :
        /\ export.status = "COMPLETED"
        /\ mint_ok
        /\ SignDepth(presigned_url_of(export.file_url[1])) <= MaxSignDepth
        /\ exports' = Replace(exports, export,
               reused_row(export, presigned_url_of(export.file_url[1])))
        /\ last' = [op |-> "get_export_status", req |-> reference_id,
                    code |-> 200,
                    body |-> [reference_id |-> export.reference_id,
                              status |-> export.status],
                    mint |-> "ok"]
        /\ UNCHANGED <<next_id, queue, clock, s3, handlers, redeliveries>>

\* routes/export_routes.py: get_export_status
get_export_status(reference_id, mint_ok) ==
    LET found == by_reference(exports, reference_id)
        answer(code, body, mint) ==
            [op |-> "get_export_status", req |-> reference_id,
             code |-> code, body |-> body, mint |-> mint]
    IN
    /\ UNCHANGED <<exports, next_id, queue, clock, s3, handlers, redeliveries>>
    /\ IF found = {}
       THEN last' = answer(404, [error |-> "Export not found"], "not_called")
       ELSE \E export \in found :
              LET response_data ==
                      [reference_id |-> export.reference_id,
                       status |-> export.status]
                  presigned_url ==
                      generate_presigned_url(export.file_url, mint_ok)
              IN
              IF export.status = "COMPLETED"
              THEN IF presigned_url = None
                   THEN last' = answer(500,
                                  [error |-> "Failed to generate download URL"],
                                  "failed")
                   ELSE last' = answer(200,
                          [reference_id |-> export.reference_id,
                           status |-> export.status,
                           file_url |-> presigned_url[1],
                           file_size |-> export.file_size,
                           row_count |-> export.row_count,
                           completed_at |-> export.completed_at],
                          "ok")
              ELSE IF export.status = "FAILED"
              THEN last' = answer(200,
                          [reference_id |-> export.reference_id,
                           status |-> export.status,
                           error_message |-> export.error_message,
                           retry_count |-> export.retry_count],
                          "not_called")
              ELSE IF export.status = "IN_PROGRESS"
              THEN last' = answer(200,
                          [reference_id |-> export.reference_id,
                           status |-> export.status,
                           started_at |-> export.started_at],
                          "not_called")
              ELSE last' = answer(200, response_data, "not_called")

-----------------------------------------------------------------------------
(* workers/export_worker.py and services/export_service.py: export_task *)

take(q, m) == q (-) SetToBag({m})

\* export_task once process_export has returned False or raised: give up
\* when the retries are used up, otherwise self.retry publishes the message
\* again with one more retry
retry_or_give_up(q, m) ==
    IF m.retries >= max_retries
    THEN take(q, m)
    ELSE take(q, m) (+) SetToBag({Message(m.reference_id, m.retries + 1)})

task_result(m) == IF m.retries >= max_retries THEN "failed" ELSE "retry"

\* the broker hands the unacknowledged message out again (task_acks_late)
redelivered(q, m) ==
    take(q, m) (+) SetToBag({Message(m.reference_id, m.retries)})

\* datetime.utcnow() as stored in started_at and completed_at: no operation
\* reads these two columns' values, only whether they are set
utcnow == "utcnow"

\* process_export, first commit: the row as claimed by the worker
claimed_row(export) ==
    [export EXCEPT !.status = "IN_PROGRESS", !.started_at = Some(utcnow)]

\* variant of completed_row that leaves error_message as it was
completed_row_keeps_error(export, s3_url, artifact) ==
    [export EXCEPT !.status = "COMPLETED",
                   !.file_url = Some(s3_url),
                   !.file_size = Some(artifact.file_size),
                   !.row_count = Some(artifact.row_count),
                   !.completed_at = Some(utcnow)]

\* process_export, commit after a successful export and upload
completed_row(export, s3_url, artifact) ==
    [export EXCEPT !.status = "COMPLETED",
                   !.file_url = Some(s3_url),
                   !.file_size = Some(artifact.file_size),
                   !.row_count = Some(artifact.row_count),
                   !.completed_at = Some(utcnow),
                   !.error_message = None]

\* process_export, after the FAILED commit: what it logs about the retry
retry_log(retry_count) ==
    IF retry_count < MAX_RETRY_ATTEMPTS
    THEN "Scheduling retry" ELSE "Export failed permanently"

\* variant of failed_row that counts one failure only
failed_row_once(export, error_msg, loaded_retry_count) ==
    [export EXCEPT !.status = "FAILED",
                   !.error_message = Some(error_msg),
                   !.retry_count = 1]

\* process_export, commit in the except branch
failed_row(export, error_msg, loaded_retry_count) ==
    [export EXCEPT !.status = "FAILED",
                   !.error_message = Some(error_msg),
                   !.retry_count = loaded_retry_count + 1]

\* a worker takes a queued message: process_export loads the job and, when
\* it exists, commits IN_PROGRESS
export_task_begin(m) ==
    /\ m \in BagToSet(queue)
    /\ m.phase = "queued"
    /\ LET found == by_reference(exports, m.reference_id)
       IN  IF found = {}
           THEN /\ queue' = retry_or_give_up(queue, m)
                /\ last' = [op |-> "export_task", req |-> m.reference_id,
                            retries |-> m.retries, result |-> task_result(m),
                            success |-> FALSE, found |-> FALSE,
                            log |-> "Export not found",
                            outcome |-> "none", error |-> None]
                /\ UNCHANGED exports
           ELSE \E export \in found :
                  /\ exports' = Replace(exports, export,
                                        claimed_row(export))
                  /\ queue' = take(queue, m) (+) SetToBag(
                        {[m EXCEPT !.phase = "running",
                                   !.loaded = Some(export.retry_count)]})
                  /\ last' = [op |-> "export_task", req |-> m.reference_id,
                              retries |-> m.retries, result |-> "claimed",
                              success |-> FALSE, found |-> TRUE,
                              log |-> "Starting export processing",
                              outcome |-> "none", error |-> None]
    /\ UNCHANGED <<next_id, clock, s3, handlers, redeliveries>>

\* the export and upload of a claimed job end: process_export commits
\* COMPLETED or FAILED and export_task returns, retries or gives up.  With
\* acked = FALSE the worker is lost after the commit and before the
\* acknowledgement, and the broker delivers the message again.
export_task_end(m, outcome, artifact, acked) ==
    /\ m \in BagToSet(queue)
    /\ m.phase = "running"
    /\ acked \/ redeliveries < MaxRedeliver
    /\ redeliveries' = IF acked THEN redeliveries ELSE redeliveries + 1
    /\ \E export \in by_reference(exports, m.reference_id) :
         LET success == outcome = "ok" /\ is_valid_table_name(export.table_name)
             error_msg == IF is_valid_table_name(export.table_name)
                          THEN "Database connection failed"
                          ELSE "Invalid table name"
             s3_url == s3_url_of(generate_s3_key(export.table_name,
                          export.date_from, export.date_to,
                          export.reference_id))
         IN  /\ exports' = Replace(exports, export,
                    IF success
                    THEN completed_row(export, s3_url, artifact)
                    ELSE failed_row(export, error_msg, m.loaded[1]))
             /\ queue' = IF ~acked THEN redelivered(queue, m)
                         ELSE IF success THEN take(queue, m)
                         ELSE retry_or_give_up(queue, m)
             /\ last' = [op |-> "export_task", req |-> m.reference_id,
                         retries |-> m.retries,
                         result |-> IF ~acked THEN "lost"
                                    ELSE IF success THEN "completed"
                                    ELSE task_result(m),
                         success |-> success, found |-> TRUE,
                         log |-> IF success THEN "Export completed"
                                 ELSE retry_log(m.loaded[1] + 1),
                         outcome |-> outcome,
                         error |-> IF success THEN None
                                   ELSE Some(error_msg)]
    /\ UNCHANGED <<next_id, clock, s3, handlers>>

\* the worker running a claimed job is lost before process_export commits a
\* result; the broker delivers the message again
worker_lost(m) ==
    /\ m \in BagToSet(queue)
    /\ m.phase = "running"
    /\ redeliveries < MaxRedeliver
    /\ redeliveries' = redeliveries + 1
    /\ queue' = redelivered(queue, m)
    /\ last' = [op |-> "worker_lost", req |-> m.reference_id]
    /\ UNCHANGED <<exports, next_id, clock, s3, handlers>>

-----------------------------------------------------------------------------
(* workers/export_worker.py: cleanup_old_exports *)

TerminalStatuses == {"COMPLETED", "FAILED", "SUPERSEDED"}

\* variant of old_exports that selects by age alone
old_exports_any_status(rows, now) ==
    {e \in rows : e.created_at < now - RETENTION_DAYS}

old_exports(rows, now) ==
    {e \in rows : /\ e.created_at < now - RETENTION_DAYS
                  /\ e.status \in TerminalStatuses}

\* variant of cleanup_old_exports that counts every selected row
cleanup_old_exports_counting_selected(delete_failed) ==
    LET selected == old_exports(exports, clock)
    IN  /\ delete_failed \subseteq {e \in selected : e.file_url # None}
        /\ exports' = exports \ (selected \ delete_failed)
        /\ last' = [op |-> "cleanup_old_exports",
                    req |-> {e.reference_id : e \in selected},
                    deleted_count |-> Cardinality(selected)]
        /\ UNCHANGED <<next_id, queue, clock, s3, handlers, redeliveries>>

\* delete_failed: the selected rows whose delete_file raises
cleanup_old_exports(delete_failed) ==
    LET selected == old_exports(exports, clock)
        deleted == selected \ delete_failed
    IN  /\ delete_failed \subseteq {e \in selected : e.file_url # None}
        /\ exports' = exports \ deleted
        /\ last' = [op |-> "cleanup_old_exports",
                    req |-> {e.reference_id : e \in selected},
                    deleted_count |-> Cardinality(deleted)]
        /\ UNCHANGED <<next_id, queue, clock, s3, handlers, redeliveries>>

-----------------------------------------------------------------------------
(* services/dashboard_service.py: retry_export and cancel_export.  The       *)
(* status column holds ExportStatus members; the dashboard compares it with  *)
(* the strings 'failed', 'pending' and 'processing'.                         *)

retry_export(reference_id) ==
    LET found == by_reference(exports, reference_id)
        result(r) == [op |-> "retry_export", req |-> reference_id,
                      result |-> r]
    IN
    IF found = {}
    THEN /\ last' = result([success |-> FALSE, message |-> "Export not found"])
         /\ UNCHANGED <<exports, next_id, queue, clock, s3, handlers, redeliveries>>
    ELSE \E export \in found :
           IF export.status \notin {"failed"}
           THEN /\ last' = result([success |-> FALSE,
                      message |-> "Only failed exports can be retried"])
                /\ UNCHANGED <<exports, next_id, queue, clock, s3, handlers, redeliveries>>
           ELSE /\ exports' = Replace(exports, export,
                      [export EXCEPT !.status = "pending",
                                     !.error_message = None,
                                     !.completed_at = None])
                /\ queue' = delay(queue, reference_id)
                /\ last' = result([success |-> TRUE,
                                   new_reference_id |-> reference_id])
                /\ UNCHANGED <<next_id, clock, s3, handlers, redeliveries>>

cancel_export(reference_id) ==
    LET found == by_reference(exports, reference_id)
        result(r) == [op |-> "cancel_export", req |-> reference_id,
                      result |-> r]
    IN
    IF found = {}
    THEN /\ last' = result([success |-> FALSE, message |-> "Export not found"])
         /\ UNCHANGED <<exports, next_id, queue, clock, s3, handlers, redeliveries>>
    ELSE \E export \in found :
           IF export.status \notin {"pending", "processing"}
           THEN /\ last' = result([success |-> FALSE, message |->
                      "Only pending or processing exports can be cancelled"])
                /\ UNCHANGED <<exports, next_id, queue, clock, s3, handlers, redeliveries>>
           ELSE /\ exports' = Replace(exports, export,
                      [export EXCEPT !.status = "failed",
                           !.error_message = Some("Export cancelled by user"),
                           !.completed_at = Some(utcnow)])
                /\ last' = result([success |-> TRUE])
                /\ UNCHANGED <<next_id, queue, clock, s3, handlers, redeliveries>>

-----------------------------------------------------------------------------
(* services/s3_service.py: upload_file, _simple_upload, _multipart_upload *)

MULTIPART_THRESHOLD == 100 * 1024 * 1024
chunk_size == 100 * 1024 * 1024

\* pc: where upload_file stands; session: the multipart upload session the
\* store holds for the current upload_id; aborts: abort_multipart_upload
\* calls made for it; result: what upload_file gave its caller;
\* part_number, part_list: the locals part_number and parts of
\* _multipart_upload; completed_with, completions: the part list the store
\* was given by complete_multipart_upload, and how often
no_upload ==
    [pc |-> "idle", file_size |-> 0, method |-> "none", offset |-> 0,
     chunk |-> 0, parts |-> 0, session |-> "none", aborts |-> 0,
     abort_failed |-> FALSE, result |-> "none",
     part_number |-> 1, part_list |-> <<>>, completed_with |-> <<>>,
     completions |-> 0]

\* part_response['ETag']: the integrity tag the store computes for a part
\* stands for the bytes it was computed from
ETag(offset, length) == <<"etag", offset, length>>

\* variant of next_part_number that does not advance
next_part_number_stuck(part_number) == part_number

\* part_number += 1
next_part_number(part_number) == part_number + 1

FileSizes ==
    {0, 1, MULTIPART_THRESHOLD - 1, MULTIPART_THRESHOLD,
     MULTIPART_THRESHOLD + 1}
    \cup {k * chunk_size : k \in 2..MaxChunks}
    \cup {k * chunk_size + 1 : k \in 2..MaxChunks}

\* variant of use_multipart that sends a file of exactly the threshold
\* through the multipart protocol
use_multipart_from_threshold(file_size) == file_size >= MULTIPART_THRESHOLD

\* upload_file: file_size > 100 * 1024 * 1024
use_multipart(file_size) == file_size > MULTIPART_THRESHOLD

raised(s) == [s EXCEPT !.pc = "done", !.result = "raised"]

returned(s) == [s EXCEPT !.pc = "done", !.result = "returned"]

\* variant of failed_in_try that raises without the except branch
failed_in_try_unhandled(s) == raised(s)

\* an exception inside the try block of _multipart_upload: control goes to
\* the except branch
failed_in_try(s) == [s EXCEPT !.pc = "except"]

\* upload_file is called for a file of file_size bytes; exists = FALSE:
\* os.path.getsize raises FileNotFoundError
upload_file(file_size, exists) ==
    /\ s3.pc \in {"idle", "done"}
    /\ s3' = IF ~exists
             THEN raised([no_upload EXCEPT !.file_size = file_size])
             ELSE [no_upload EXCEPT
                     !.file_size = file_size,
                     !.method = IF use_multipart(file_size)
                                THEN "multipart" ELSE "simple",
                     !.pc = IF use_multipart(file_size)
                            THEN "create_multipart_upload"
                            ELSE "simple_upload"]
    /\ last' = [op |-> "upload_file", req |-> file_size]
    /\ UNCHANGED <<exports, next_id, queue, clock, redeliveries, handlers>>

\* _simple_upload: s3_client.upload_file returns or raises
simple_upload(ok) ==
    /\ s3.pc = "simple_upload"
    /\ s3' = IF ok THEN returned(s3) ELSE raised(s3)
    /\ last' = [op |-> "simple_upload", req |-> ok]
    /\ UNCHANGED <<exports, next_id, queue, clock, redeliveries, handlers>>

\* _multipart_upload, before the try block: a failure here opens no session
create_multipart_upload(ok) ==
    /\ s3.pc = "create_multipart_upload"
    /\ s3' = IF ok THEN [s3 EXCEPT !.session = "open", !.pc = "read"]
             ELSE raised(s3)
    /\ last' = [op |-> "create_multipart_upload", req |-> ok]
    /\ UNCHANGED <<exports, next_id, queue, clock, redeliveries, handlers>>

\* chunk = f.read(chunk_size); an empty chunk ends the loop.  ok = FALSE:
\* opening or reading the file raises
read_chunk(ok) ==
    /\ s3.pc = "read"
    /\ s3' = IF ~ok THEN failed_in_try(s3)
             ELSE IF s3.offset >= s3.file_size
             THEN [s3 EXCEPT !.chunk = 0,
                             !.pc = "complete_multipart_upload"]
             ELSE [s3 EXCEPT !.chunk = Min(chunk_size,
                                           s3.file_size - s3.offset),
                             !.pc = "upload_part"]
    /\ last' = [op |-> "read_chunk", req |-> ok]
    /\ UNCHANGED <<exports, next_id, queue, clock, redeliveries, handlers>>

upload_part(ok) ==
    /\ s3.pc = "upload_part"
    /\ s3' = IF ~ok THEN failed_in_try(s3)
             ELSE [s3 EXCEPT !.parts = @ + 1,
                             !.part_list = Append(@,
                                 [ETag |-> ETag(s3.offset, s3.chunk),
                                  PartNumber |-> s3.part_number]),
                             !.part_number = next_part_number(@),
                             !.offset = @ + s3.chunk,
                             !.pc = "read"]
    /\ last' = [op |-> "upload_part", req |-> ok]
    /\ UNCHANGED <<exports, next_id, queue, clock, redeliveries, handlers>>

complete_multipart_upload(ok) ==
    /\ s3.pc = "complete_multipart_upload"
    /\ s3' = IF ~ok THEN failed_in_try(s3)
             ELSE returned([s3 EXCEPT !.session = "completed",
                                      !.completed_with = s3.part_list,
                                      !.completions = @ + 1])
    /\ last' = [op |-> "complete_multipart_upload", req |-> ok]
    /\ UNCHANGED <<exports, next_id, queue, clock, redeliveries, handlers>>

\* the except branch: abort_multipart_upload, then raise.  ok = FALSE: the
\* abort call itself raises and the session stays open
abort_multipart_upload(ok) ==
    /\ s3.pc = "except"
    /\ s3' = raised([s3 EXCEPT !.aborts = @ + 1,
                               !.abort_failed = ~ok,
                               !.session = IF ok THEN "aborted" ELSE @])
    /\ last' = [op |-> "abort_multipart_upload", req |-> ok]
    /\ UNCHANGED <<exports, next_id, queue, clock, redeliveries, handlers>>

NextUpload ==
    \/ \E file_size \in FileSizes, exists \in BOOLEAN :
            upload_file(file_size, exists)
    \/ \E ok \in BOOLEAN : simple_upload(ok)
    \/ \E ok \in BOOLEAN : create_multipart_upload(ok)
    \/ \E ok \in BOOLEAN : read_chunk(ok)
    \/ \E ok \in BOOLEAN : upload_part(ok)
    \/ \E ok \in BOOLEAN : complete_multipart_upload(ok)
    \/ \E ok \in BOOLEAN : abort_multipart_upload(ok)

-----------------------------------------------------------------------------
(* The environment: days pass *)

advance_clock(days) ==
    /\ clock + days <= MaxClock
    /\ clock' = clock + days
    /\ last' = [op |-> "advance_clock", req |-> days]
    /\ UNCHANGED <<exports, next_id, queue, redeliveries, s3, handlers>>

-----------------------------------------------------------------------------
(* The specification *)

\* the request threads of the web server, and a thread between requests
Handlers == 1..MaxHandlers

idle == [pc |-> "idle"]

Init ==
    /\ exports = {}
    /\ next_id = 1
    /\ queue = EmptyBag
    /\ clock = 0
    /\ redeliveries = 0
    /\ s3 = no_upload
    /\ handlers = [h \in Handlers |-> idle]
    /\ last = [op |-> "init"]

Next ==
    \/ \E data \in Requests : create_export(data)
    \/ \E reference_id \in 1..next_id, mint_ok \in BOOLEAN :
            get_export_status(reference_id, mint_ok)
    \/ \E m \in BagToSet(queue) : export_task_begin(m)
    \/ \E m \in BagToSet(queue), outcome \in {"ok", "error"},
          artifact \in Artifacts, acked \in BOOLEAN :
            export_task_end(m, outcome, artifact, acked)
    \/ \E m \in BagToSet(queue) : worker_lost(m)
    \/ \E delete_failed \in SUBSET exports : cleanup_old_exports(delete_failed)
    \/ \E reference_id \in 1..next_id : retry_export(reference_id)
    \/ \E reference_id \in 1..next_id : cancel_export(reference_id)
    \/ \E days \in {RETENTION_DAYS + 1} : advance_clock(days)

Spec == Init /\ [][Next]_vars

-----------------------------------------------------------------------------
(* services/export_service.py: _export_to_csv *)

\* the result of the SELECT: n rows of one table, in the order of the query
Source(n) == [i \in 1..n |-> [id |-> i, amount |-> 100 * i]]

\* result.fetchmany(chunk_size): the next rows, at most chunk_size of them
fetchmany(remaining, size) == SubSeq(remaining, 1, Min(size, Len(remaining)))

\* variant of writeheader that writes the header for every chunk
writeheader_every_chunk(writer, rows) ==
    <<[line |-> "header", fieldnames |-> DOMAIN rows[1]]>>

\* the lines the `if writer is None` block writes: the header, with the
\* fieldnames of the chunk's first row, when no writer exists yet
writeheader(writer, rows) ==
    IF writer = None
    THEN <<[line |-> "header", fieldnames |-> DOMAIN rows[1]]>>
    ELSE <<>>

\* writer.writerow(dict(row)): the row's values under the writer's fieldnames
writerow(fieldnames, row) ==
    [line |-> "row", values |-> [f \in fieldnames |-> row[f]]]

RECURSIVE fetch_loop(_, _, _, _, _)
\* the `while True` loop: remaining is what the cursor still holds, writer
\* is None or Some(fieldnames), csvfile the lines written so far
fetch_loop(remaining, size, writer, csvfile, row_count) ==
    LET rows == fetchmany(remaining, size)
        fieldnames == IF writer = None THEN DOMAIN rows[1] ELSE writer[1]
    IN  IF rows = <<>>
        THEN [csvfile |-> csvfile, row_count |-> row_count]
        ELSE fetch_loop(SubSeq(remaining, Len(rows) + 1, Len(remaining)),
                        size, Some(fieldnames),
                        csvfile \o writeheader(writer, rows)
                                \o [i \in 1..Len(rows) |->
                                       writerow(fieldnames, rows[i])],
                        row_count + Len(rows))

\* _export_to_csv for a valid table: the file it writes and the count it
\* returns
export_to_csv(source, size) == fetch_loop(source, size, None, <<>>, 0)

-----------------------------------------------------------------------------
(* The program's pure functions, applied to inputs of their own *)

bank_nl == bank \o <<"\n">>
underscore == <<"_">>

Tables == {bank, bad_table, bank_nl, underscore}
DateStrings == {d_jan01, d_jan1, d_jan31, d_slash, d_jun15}

apply_countdown(retries) ==
    /\ last' = [op |-> "countdown", req |-> retries,
                value |-> countdown(retries)]
    /\ UNCHANGED <<exports, next_id, queue, clock, s3, handlers, redeliveries>>

apply_dedup_key(table_name, date_from_str, date_to_str) ==
    /\ last' = [op |-> "dedup_key",
                req |-> Body(table_name, date_from_str, date_to_str),
                value |-> dedup_key_of(table_name, date_from_str,
                                       date_to_str)]
    /\ UNCHANGED <<exports, next_id, queue, clock, s3, handlers, redeliveries>>

apply_strptime(s) ==
    /\ last' = [op |-> "strptime", req |-> s, value |-> strptime_date(s)]
    /\ UNCHANGED <<exports, next_id, queue, clock, s3, handlers, redeliveries>>

apply_is_valid_table_name(table_name) ==
    /\ last' = [op |-> "is_valid_table_name", req |-> table_name,
                value |-> is_valid_table_name(table_name)]
    /\ UNCHANGED <<exports, next_id, queue, clock, s3, handlers, redeliveries>>

apply_export_to_csv(n, size) ==
    /\ last' = [op |-> "export_to_csv",
                req |-> [source |-> Source(n), chunk_size |-> size],
                value |-> export_to_csv(Source(n), size)]
    /\ UNCHANGED <<exports, next_id, queue, clock, s3, handlers, redeliveries>>

NextFunctions ==
    \/ \E retries \in 0..MaxBackoffArg : apply_countdown(retries)
    \/ \E table_name \in Tables, date_from_str, date_to_str \in DateStrings :
            apply_dedup_key(table_name, date_from_str, date_to_str)
    \/ \E s \in DateStrings : apply_strptime(s)
    \/ \E table_name \in Tables : apply_is_valid_table_name(table_name)
    \/ \E n \in 0..MaxRows, size \in 1..MaxChunkRows :
            apply_export_to_csv(n, size)

SpecFunctions == Init /\ [][NextFunctions]_vars

SpecUpload == Init /\ [][NextUpload]_vars

-----------------------------------------------------------------------------
(* routes/export_routes.py: create_export served by several request       *)
(* threads.  A request reads the ledger (the COMPLETED lookup) and writes   *)
(* it (the commit) in two steps, and other requests run in between.         *)

\* the requests the threads serve: the same parameters, of a range that
\* ended before today, forced or not
SameRequests ==
    {Body(bank, d_jan01, d_jan31), Forced(Body(bank, d_jan01, d_jan31))}

\* the thread has done the COMPLETED lookup and has not committed
looked_up(hs, k) == hs[k].pc = "looked_up" /\ ~hs[k].create_new

\* the threads after the commit of thread h: h is done, and the commit of a
\* request that looked up overtakes every thread between lookup and commit
after_commit(hs, h) ==
    [k \in Handlers |->
        IF k = h THEN idle
        ELSE IF looked_up(hs, k) /\ looked_up(hs, h)
        THEN [hs[k] EXCEPT !.overtaken = TRUE]
        ELSE hs[k]]

\* lines 20-63: validation, should_create_new and the COMPLETED lookup
create_export_lookup(h, data) ==
    LET force_refresh == IF "force_refresh" \in DOMAIN data
                         THEN data.force_refresh ELSE FALSE
        dedup_key == dedup_key_of(data.table_name, data.date_from,
                                  data.date_to)
        create_new == should_create_new(force_refresh,
                                        parsed[data.date_to][1], today)
        found == IF create_new THEN {}
                 ELSE existing_completed(exports, dedup_key)
    IN
    /\ handlers[h] = idle
    /\ validation_error(data) = None
    /\ next_id + Cardinality({k \in Handlers : handlers[k] # idle})
          <= MaxCreateJobs
    /\ \E existing_export \in (IF found = {} THEN {None}
                               ELSE {Some(e) : e \in found}) :
         handlers' = [handlers EXCEPT ![h] =
                         [pc |-> "looked_up", data |-> data,
                          create_new |-> create_new,
                          existing_export |-> existing_export,
                          overtaken |-> FALSE]]
    /\ last' = [op |-> "create_export_lookup", req |-> data, handler |-> h]
    /\ UNCHANGED <<exports, next_id, queue, clock, s3, redeliveries>>

\* lines 65-113: the reuse of the job the lookup found, or the supersession,
\* the insert, the commit and the enqueue
create_export_commit(h, mint_ok, commit_ok, enqueue_ok) ==
    /\ handlers[h].pc = "looked_up"
    /\ LET data == handlers[h].data
           existing_export == handlers[h].existing_export
           create_new == handlers[h].create_new
           dedup_key == dedup_key_of(data.table_name, data.date_from,
                                     data.date_to)
           presigned_url ==
               IF existing_export = None THEN None
               ELSE generate_presigned_url(existing_export[1].file_url,
                                           mint_ok)
           new_export == Export(next_id, data.table_name,
                                parsed[data.date_from][1],
                                parsed[data.date_to][1], dedup_key, clock)
           answer(code, body, mint, commit, enqueue) ==
               [op |-> "create_export", req |-> data, code |-> code,
                body |-> body, mint |-> mint, commit |-> commit,
                enqueue |-> enqueue, handler |-> h,
                overtaken |->
                    \/ handlers[h].overtaken
                    \/ /\ looked_up(handlers, h)
                       /\ \E k \in Handlers \ {h} : looked_up(handlers, k)]
           mint == IF existing_export = None THEN "not_called" ELSE "failed"
       IN
       IF presigned_url # None
       THEN \* the UPDATE of the loaded row's file_url, by primary key
            /\ SignDepth(presigned_url[1]) <= MaxSignDepth
            /\ IF commit_ok
               THEN /\ exports' =
                         {IF e.reference_id = existing_export[1].reference_id
                          THEN reused_row(e, presigned_url[1])
                          ELSE e : e \in exports}
                    /\ last' = answer(200,
                         [reference_id |-> existing_export[1].reference_id,
                          status |-> existing_export[1].status,
                          reused |-> TRUE,
                          file_url |-> presigned_url[1]],
                         "ok", "ok", "not_called")
               ELSE /\ exports' = exports
                    /\ last' = answer(500, [error |-> "Internal server error"],
                                      "ok", "failed", "not_called")
            /\ handlers' = IF commit_ok THEN after_commit(handlers, h)
                           ELSE [handlers EXCEPT ![h] = idle]
            /\ UNCHANGED <<next_id, queue, clock, s3, redeliveries>>
       ELSE /\ IF ~commit_ok
               THEN /\ last' = answer(500, [error |-> "Internal server error"],
                                      mint, "failed", "not_called")
                    /\ handlers' = [handlers EXCEPT ![h] = idle]
                    /\ UNCHANGED <<exports, next_id, queue>>
               ELSE /\ exports' = rows_after_create(exports, create_new,
                                                    dedup_key, new_export)
                    /\ next_id' = next_id + 1
                    /\ handlers' = after_commit(handlers, h)
                    /\ IF enqueue_ok
                       THEN /\ queue' = delay(queue, new_export.reference_id)
                            /\ last' = answer(201,
                                 [reference_id |-> new_export.reference_id,
                                  status |-> new_export.status,
                                  reused |-> FALSE],
                                 mint, "ok", "ok")
                       ELSE /\ queue' = queue
                            /\ last' = answer(500,
                                 [error |-> "Internal server error"],
                                 mint, "ok", "failed")
            /\ UNCHANGED <<clock, s3, redeliveries>>

NextCreate ==
    \/ \E h \in Handlers, data \in SameRequests : create_export_lookup(h, data)
    \/ \E h \in Handlers, mint_ok, commit_ok, enqueue_ok \in BOOLEAN :
            create_export_commit(h, mint_ok, commit_ok, enqueue_ok)
    \/ \E m \in BagToSet(queue) : export_task_begin(m)
    \/ \E m \in BagToSet(queue), outcome \in {"ok", "error"},
          artifact \in Artifacts :
            export_task_end(m, outcome, artifact, TRUE)

SpecCreate == Init /\ [][NextCreate]_vars

-----------------------------------------------------------------------------
(* Creation and execution of jobs under a fair broker: every message the   *)
(* broker holds is delivered, and every execution that started ends.        *)

NextLive ==
    \/ \E data \in Requests : create_export(data)
    \/ \E m \in BagToSet(queue) : export_task_begin(m)
    \/ \E m \in BagToSet(queue), outcome \in {"ok", "error"},
          artifact \in Artifacts, acked \in BOOLEAN :
            export_task_end(m, outcome, artifact, acked)
    \/ \E m \in BagToSet(queue) : worker_lost(m)

\* the broker delivers the messages of job reference_id
delivery(reference_id) ==
    \E m \in BagToSet(queue) :
        m.reference_id = reference_id /\ export_task_begin(m)

\* the executions of job reference_id come to an end
termination(reference_id) ==
    \E m \in BagToSet(queue), outcome \in {"ok", "error"},
       artifact \in Artifacts, acked \in BOOLEAN :
        m.reference_id = reference_id
        /\ export_task_end(m, outcome, artifact, acked)

SpecLive ==
    /\ Init
    /\ [][NextLive]_vars
    /\ \A reference_id \in 1..MaxJobs :
          /\ WF_vars(delivery(reference_id))
          /\ WF_vars(termination(reference_id))

-----------------------------------------------------------------------------
(* Vocabulary of the properties *)

RequiredFields == {"table_name", "date_from", "date_to"}

\* the string reads YYYY-MM-DD: four digits, two digits, two digits
IsYMD(s) ==
    /\ Len(s) = 10
    /\ s[5] = "-" /\ s[8] = "-"
    /\ \A i \in {1, 2, 3, 4, 6, 7, 9, 10} : s[i] \in Digit

ForceRefresh(data) ==
    "force_refresh" \in DOMAIN data /\ data.force_refresh = TRUE

\* all fields present, both dates accepted by strptime, date_from <= date_to
WellFormed(data) ==
    /\ RequiredFields \subseteq DOMAIN data
    /\ strptime_date(data.date_from) # None
    /\ strptime_date(data.date_to) # None
    /\ strptime_date(data.date_from)[1] <= strptime_date(data.date_to)[1]

DateTo(data) == strptime_date(data.date_to)[1]

KeyOf(data) == dedup_key_of(data.table_name, data.date_from, data.date_to)

CompletedWithKey(rows, key) ==
    {e \in rows : e.dedup_key = key /\ e.status = "COMPLETED"}

Ids(rows) == {e.reference_id : e \in rows}

\* the create_export call that has just answered inserted a row
Inserted ==
    /\ last.op = "create_export"
    /\ last.commit = "ok"
    /\ last.enqueue # "not_called"

-----------------------------------------------------------------------------
(* Properties *)

C2_OneCompletedPerKey ==
    \A e1, e2 \in exports :
        (/\ e1.status = "COMPLETED"
         /\ e2.status = "COMPLETED"
         /\ e1.dedup_key = e2.dedup_key) => e1 = e2

\* C3: a create request without force_refresh whose date_to is not today,
\* made while a COMPLETED job with its dedup_key exists and with the URL
\* minting and the commit succeeding, answers that job's reference_id with
\* status COMPLETED and reused = true, inserts no row and enqueues nothing.
C3_ReuseCompleted ==
    [][(/\ last'.op = "create_export"
        /\ WellFormed(last'.req)
        /\ ~ForceRefresh(last'.req)
        /\ DateTo(last'.req) # today
        /\ CompletedWithKey(exports, KeyOf(last'.req)) # {}
        /\ last'.mint # "failed"
        /\ last'.commit # "failed")
       => (/\ last'.code = 200
           /\ last'.body.reused = TRUE
           /\ last'.body.status = "COMPLETED"
           /\ last'.body.reference_id
                \in Ids(CompletedWithKey(exports, KeyOf(last'.req)))
           /\ Ids(exports') = Ids(exports)
           /\ next_id' = next_id
           /\ queue' = queue)]_vars

\* a request without force_refresh and dated before today has just been
\* answered with a reused job
C3_Witness ==
    /\ last.op = "create_export"
    /\ last.code = 200
    /\ last.body.reused = TRUE
    /\ ~ForceRefresh(last.req)
    /\ DateTo(last.req) # today

C6_DurableFileUrl ==
    \A e \in exports :
        \/ e.file_url = None
        \/ e.file_url = Some(s3_url_of(generate_s3_key(e.table_name,
                             e.date_from, e.date_to, e.reference_id)))

RejectsUnparsed ==
    [][(last'.op = "create_export" /\ ~WellFormed(last'.req))
       => (/\ last'.code = 400
           /\ "error" \in DOMAIN last'.body
           /\ UNCHANGED <<exports, next_id, queue>>)]_vars

StatusEdges ==
    {<<"PENDING", "IN_PROGRESS">>, <<"IN_PROGRESS", "COMPLETED">>,
     <<"IN_PROGRESS", "FAILED">>, <<"PENDING", "FAILED">>,
     <<"FAILED", "PENDING">>, <<"COMPLETED", "SUPERSEDED">>,
     <<"FAILED", "SUPERSEDED">>}

C9_StatusEdges ==
    [][\A e \in exports : \A f \in by_reference(exports', e.reference_id) :
          e.status # f.status => <<e.status, f.status>> \in StatusEdges]_vars

\* C10: with automatic retries only, no manual retry and no redelivery, a
\* job's retry_count never exceeds MAX_RETRY_ATTEMPTS.
C10_RetryCountBounded ==
    redeliveries = 0 =>
        \A e \in exports : e.retry_count <= MAX_RETRY_ATTEMPTS

\* C11: once process_export has reported a job as permanently failed (its
\* retry_count has reached MAX_RETRY_ATTEMPTS), the job stays FAILED and
\* export_task schedules no further automatic execution of it.  Stated for
\* executions whose worker is not lost.
C11_PermanentFailureIsFinal ==
    (/\ last.op = "export_task"
     /\ last.log = "Export failed permanently"
     /\ redeliveries = 0)
    => (/\ \A m \in BagToSet(queue) : m.reference_id # last.req
        /\ \A e \in by_reference(exports, last.req) : e.status = "FAILED")

\* C12: the delay before automatic retry number n (n = 0 for the first
\* retry) is min(60 * 2^n, 300) seconds: 60 for n = 0, doubling per
\* attempt, never above the cap of 300.
RECURSIVE Doubled(_)
Doubled(n) == IF n = 0 THEN 60 ELSE Min(2 * Doubled(n - 1), 300)

C12_Backoff ==
    last.op = "countdown" =>
        /\ last.value = Doubled(last.req)
        /\ last.value <= 300
        /\ (last.req > 0 /\ 2 * Doubled(last.req - 1) <= 300)
               => last.value = 2 * Doubled(last.req - 1)

\* the backoff has been computed for a retry number at which the cap applies
C12_Witness ==
    /\ last.op = "countdown"
    /\ 60 * (2 ^ last.req) > 300
    /\ last.value = 300

\* the delay carried by every message export_task has scheduled as retry
\* number n is the backoff of n
RetryCarriesBackoff ==
    \A m \in BagToSet(queue) :
        m.retries > 0 => m.countdown = Doubled(m.retries - 1)

\* C13: when a delivered message names a reference_id for which no ledger
\* row exists, the delivery is a terminal no-op: the ledger is unchanged and
\* the message is dropped, with no retry or redelivery scheduled for it.
C13_MissingJobDropped ==
    [][(last'.op = "export_task" /\ last'.found = FALSE)
       => (/\ exports' = exports
           /\ \A m \in BagToSet(queue') : m.reference_id # last'.req)]_vars

\* the execution of a claimed job that has just ended, and whether its
\* export and upload went through (an invalid table name makes the export
\* raise)
Executed(l) == l.op = "export_task" /\ l.found /\ l.result # "claimed"

Succeeds(l, export) ==
    l.outcome = "ok" /\ is_valid_table_name(export.table_name)

\* C14: when process_export runs on an existing job and both the export and
\* the upload succeed, it returns True and the job ends COMPLETED, with
\* file_url the location the uploader returned, file_size and row_count
\* those of the produced artifact, completed_at set and error_message
\* cleared.
C14_SuccessRecorded ==
    [][\A e \in exports :
         (/\ Executed(last')
          /\ last'.req = e.reference_id
          /\ Succeeds(last', e))
         => (/\ last'.success = TRUE
             /\ by_reference(exports', e.reference_id) # {}
             /\ \A f \in by_reference(exports', e.reference_id) :
                  /\ f.status = "COMPLETED"
                  /\ f.file_url = Some(s3_url_of(generate_s3_key(
                         e.table_name, e.date_from, e.date_to,
                         e.reference_id)))
                  /\ \E artifact \in Artifacts :
                         /\ f.file_size = Some(artifact.file_size)
                         /\ f.row_count = Some(artifact.row_count)
                  /\ f.completed_at # None
                  /\ f.error_message = None)]_vars

\* a job that had failed before is executed again, succeeds, and is
\* COMPLETED with its earlier failures still counted
C14_Witness ==
    /\ Executed(last)
    /\ last.success = TRUE
    /\ \E e \in by_reference(exports, last.req) :
          e.status = "COMPLETED" /\ e.retry_count > 0

\* C15: when the export or the upload raises during process_export, it
\* returns False and the job ends FAILED, with error_message the error
\* text and retry_count one greater than before the execution; file_url,
\* file_size and row_count are not modified by the failed execution.
C15_FailureRecorded ==
    [][\A e \in exports :
         (/\ Executed(last')
          /\ last'.req = e.reference_id
          /\ ~Succeeds(last', e))
         => (/\ last'.success = FALSE
             /\ by_reference(exports', e.reference_id) # {}
             /\ \A f \in by_reference(exports', e.reference_id) :
                  /\ f.status = "FAILED"
                  /\ f.error_message # None
                  /\ f.error_message = last'.error
                  /\ f.retry_count = e.retry_count + 1
                  /\ f.file_url = e.file_url
                  /\ f.file_size = e.file_size
                  /\ f.row_count = e.row_count)]_vars

\* a job has failed for the second time
C15_Witness ==
    /\ Executed(last)
    /\ last.success = FALSE
    /\ \E e \in by_reference(exports, last.req) :
          e.status = "FAILED" /\ e.retry_count = 2

\* C16: in a cleanup sweep, when deleting the storage object of one
\* selected job fails, that job's ledger row is still removed and the sweep
\* continues with the remaining selected jobs, all of whose rows are
\* removed too.
C16_CleanupRemovesSelected ==
    [][last'.op = "cleanup_old_exports"
       => \A e \in exports :
             e.reference_id \in last'.req
                => by_reference(exports', e.reference_id) = {}]_vars

\* C17: cleanup_old_exports removes only jobs whose status is COMPLETED,
\* FAILED or SUPERSEDED and whose created_at is older than the 30-day
\* retention window; it never deletes a PENDING or IN_PROGRESS job nor a
\* job created within the window, and it changes no field of the rows it
\* keeps.
C17_CleanupRemovesOnlyOld ==
    [][last'.op = "cleanup_old_exports"
       => (/\ exports' \subseteq exports
           /\ \A e \in exports \ exports' :
                 /\ e.status \in {"COMPLETED", "FAILED", "SUPERSEDED"}
                 /\ e.created_at + 30 < clock)]_vars

\* a sweep has removed a job and kept another one
C17_Witness ==
    /\ last.op = "cleanup_old_exports"
    /\ last.deleted_count > 0
    /\ exports # {}

\* C18: upload_file uses the single-shot upload for every artifact of at
\* most 100 * 1024 * 1024 bytes, that size included, and the multipart
\* protocol for every larger artifact, one byte above included.
C18_UploadMethod ==
    s3.method # "none" =>
        /\ s3.file_size <= 104857600 => s3.method = "simple"
        /\ s3.file_size > 104857600 => s3.method = "multipart"
        /\ s3.method = "simple" => s3.session = "none" /\ s3.parts = 0
        /\ (s3.method = "multipart" /\ s3.result = "returned")
              => s3.session = "completed"

\* a file of exactly the threshold has been uploaded in one shot
C18_Witness ==
    /\ s3.file_size = 104857600
    /\ s3.method = "simple"
    /\ s3.result = "returned"

\* C19: in _multipart_upload, once the session is open, a failure of
\* reading the file, uploading a part or completing the upload leads to
\* exactly one abort of the session before the error is raised, so that
\* (the abort call going through) no session is left un-completed and
\* un-aborted; a session that completes is never aborted.
C19_AbortOnFailure ==
    /\ s3.aborts <= 1
    /\ (s3.result = "raised" /\ s3.session # "none") => s3.aborts = 1
    /\ (s3.pc = "done" /\ s3.session = "open") => s3.abort_failed
    /\ s3.session = "completed" => (s3.aborts = 0 /\ s3.result = "returned")
    /\ s3.session = "aborted" => (s3.aborts = 1 /\ s3.result = "raised")

\* the upload of a part has failed after an earlier part went through, and
\* the session has been aborted
C19_Witness ==
    /\ s3.result = "raised"
    /\ s3.session = "aborted"
    /\ s3.parts > 0
    /\ s3.offset < s3.file_size

\* C20: a manual retry (retry_export) applied to a job whose status is
\* FAILED sets its status to PENDING, clears error_message, enqueues one
\* message with its reference_id and reports success.
C20_ManualRetry ==
    [][\A e \in exports :
         (/\ last'.op = "retry_export"
          /\ last'.req = e.reference_id
          /\ e.status = "FAILED")
         => (/\ last'.result.success = TRUE
             /\ \A f \in by_reference(exports', e.reference_id) :
                   f.status = "PENDING" /\ f.error_message = None
             /\ \E m \in BagToSet(queue') :
                   /\ m.reference_id = e.reference_id
                   /\ CopiesIn(m, queue') = CopiesIn(m, queue) + 1)]_vars

\* C21: a cancel (cancel_export) applied to a job whose status is PENDING
\* or IN_PROGRESS sets its status to FAILED with the cancellation reason as
\* error_message and reports success, whether or not revoking the
\* in-flight task succeeds.
C21_Cancel ==
    [][\A e \in exports :
         (/\ last'.op = "cancel_export"
          /\ last'.req = e.reference_id
          /\ e.status \in {"PENDING", "IN_PROGRESS"})
         => (/\ last'.result.success = TRUE
             /\ \A f \in by_reference(exports', e.reference_id) :
                   /\ f.status = "FAILED"
                   /\ f.error_message = Some("Export cancelled by user"))]_vars

\* C22: the retry_count of a job never decreases over worker executions,
\* cancels, supersessions and reuse requests; the only operation after
\* which it is lower than before is a manual retry, which resets it and
\* clears error_message.
C22_RetryCountResetOnlyManually ==
    [][\A e \in exports :
       \A f \in by_reference(exports', e.reference_id) :
         /\ last'.op # "retry_export" => f.retry_count >= e.retry_count
         /\ (/\ last'.op = "retry_export"
             /\ last'.req = e.reference_id
             /\ e.status = "FAILED")
            => (f.retry_count = 0 /\ f.error_message = None)]_vars

\* What holds of retry_count: no operation, the manual retry included,
\* lowers it.
RetryCountMonotone ==
    [][\A e \in exports :
       \A f \in by_reference(exports', e.reference_id) :
         f.retry_count >= e.retry_count]_vars

StatusFields(status) ==
    IF status = "COMPLETED"
    THEN {"file_url", "file_size", "row_count", "completed_at"}
    ELSE IF status = "FAILED" THEN {"error_message", "retry_count"}
    ELSE IF status = "IN_PROGRESS" THEN {"started_at"}
    ELSE {}

AllStatusFields ==
    UNION {StatusFields(status) : status \in ExportStatus}

\* the answer l reports the job e: its status, and the fields of that status
\* and of no other, with the values of the row and a signed URL for its file
Reports(l, e) ==
    /\ l.code = 200
    /\ l.body.reference_id = e.reference_id
    /\ l.body.status = e.status
    /\ DOMAIN l.body \cap AllStatusFields = StatusFields(e.status)
    /\ e.status = "COMPLETED" =>
          /\ l.body.file_url.scheme = "https"
          /\ l.body.file_url.expires = PRESIGNED_URL_EXPIRATION
          /\ l.body.file_url.key = s3_key_of(e.file_url[1])
          /\ l.body.file_size = e.file_size
          /\ l.body.row_count = e.row_count
          /\ l.body.completed_at = e.completed_at
    /\ e.status = "FAILED" =>
          /\ l.body.error_message = e.error_message
          /\ l.body.retry_count = e.retry_count
    /\ e.status = "IN_PROGRESS" => l.body.started_at = e.started_at

\* C24: a status query for an existing job returns the job's current status
\* with file_url, file_size, row_count and completed_at exactly when it is
\* COMPLETED, error_message and retry_count exactly when it is FAILED and
\* started_at exactly when it is IN_PROGRESS; a query for an unknown
\* reference_id returns not-found.
C24_StatusQuery ==
    [][last'.op = "get_export_status"
       => IF by_reference(exports, last'.req) = {}
          THEN last'.code = 404
          ELSE \A e \in by_reference(exports, last'.req) :
                  Reports(last', e)]_vars

\* C24, as the code has it: the same, except that a query for a COMPLETED job
\* whose download URL cannot be minted answers 500 with an error and no
\* status.
C24_StatusQueryUnlessMintFails ==
    [][last'.op = "get_export_status"
       => IF by_reference(exports, last'.req) = {}
          THEN last'.code = 404
          ELSE \A e \in by_reference(exports, last'.req) :
                  IF e.status = "COMPLETED" /\ last'.mint = "failed"
                  THEN /\ last'.code = 500
                       /\ DOMAIN last'.body = {"error"}
                  ELSE Reports(last', e)]_vars

\* a COMPLETED job has been queried and the minting failed
C24_Witness ==
    /\ last.op = "get_export_status"
    /\ last.mint = "failed"
    /\ \E e \in by_reference(exports, last.req) : e.status = "COMPLETED"

\* both dates of the request parse, as create_export requires before it
\* computes a key
Dated(req) ==
    /\ strptime_date(req.date_from) # None
    /\ strptime_date(req.date_to) # None

\* the two requests name the same table and denote the same dates
SameIdentity(a, b) ==
    /\ a.table_name = b.table_name
    /\ strptime_date(a.date_from) = strptime_date(b.date_from)
    /\ strptime_date(a.date_to) = strptime_date(b.date_to)

\* C25: dedup_key is a function of (table_name, date_from, date_to) alone: of
\* any two requests that get a key, one computed after the other, the keys
\* are equal when the table_name is equal and the dates denote the same
\* days, and different when the requests differ in one of the three.
C25_DedupKeyOfIdentity ==
    [][(/\ last.op = "dedup_key"
        /\ last'.op = "dedup_key"
        /\ Dated(last.req)
        /\ Dated(last'.req))
       => (last'.value = last.value <=> SameIdentity(last.req, last'.req))]_vars

\* What holds of the key: it tells apart any two requests that differ as
\* strings.
DedupKeyOfStrings ==
    [][(/\ last.op = "dedup_key"
        /\ last'.op = "dedup_key")
       => (last'.value = last.value <=> last'.req = last.req)]_vars

\* the messages of a job: queued, scheduled for a retry, or being executed
MessagesOf(q, reference_id) ==
    {m \in BagToSet(q) : m.reference_id = reference_id}

\* C26: no row that a cleanup sweep selects for deletion has, at the time of
\* the sweep, a pending message, a scheduled automatic retry or an execution
\* in flight.
C26_CleanupSelectsNoLiveJob ==
    [][last'.op = "cleanup_old_exports"
       => \A e \in old_exports(exports, clock) :
             MessagesOf(queue, e.reference_id) = {}]_vars

\* What holds of the sweep: at the time it selects, no selected row is being
\* executed, since an execution holds its row IN_PROGRESS.
CleanupSelectsNoRunningJob ==
    [][last'.op = "cleanup_old_exports"
       => \A e \in old_exports(exports, clock) :
          \A m \in MessagesOf(queue, e.reference_id) : m.phase = "queued"]_vars

\* the row is as the constructor and the column defaults make it
AsConstructed(f) ==
    f = Export(f.reference_id, f.table_name, f.date_from, f.date_to,
               f.dedup_key, f.created_at)

\* the create request just answered ran interleaved with another one: both
\* did the COMPLETED lookup before either committed
Interleaved(l) ==
    /\ l.op = "create_export"
    /\ "overtaken" \in DOMAIN l
    /\ l.overtaken

\* C27: when create requests with the same parameters interleave between
\* lookup and commit, a commit leaves every existing row in place, changed
\* at most by supersession (COMPLETED or FAILED to SUPERSEDED), adds at most
\* rows as the constructor makes them (PENDING), and no two rows share a
\* reference_id.
C27_InterleavedCreate ==
    [][Interleaved(last')
       => (/\ \A e \in exports :
                \E f \in exports' :
                   \/ f = e
                   \/ /\ e.status \in {"COMPLETED", "FAILED"}
                      /\ f = [e EXCEPT !.status = "SUPERSEDED"]
           /\ \A f \in exports' :
                f.reference_id \notin Ids(exports) => AsConstructed(f)
           /\ \A f, g \in exports' :
                f.reference_id = g.reference_id => f = g)]_vars

\* What holds of interleaved requests: the same, with the signed URL that
\* the reuse path stores on the job it found as one more change of a row.
InterleavedCreateButReuse ==
    [][Interleaved(last')
       => (/\ \A e \in exports :
                \E f \in exports' :
                   \/ f = e
                   \/ /\ e.status \in {"COMPLETED", "FAILED"}
                      /\ f = [e EXCEPT !.status = "SUPERSEDED"]
                   \/ /\ last'.code = 200
                      /\ f = reused_row(e, last'.body.file_url)
           /\ \A f \in exports' :
                f.reference_id \notin Ids(exports) => AsConstructed(f)
           /\ \A f, g \in exports' :
                f.reference_id = g.reference_id => f = g)]_vars

\* two interleaved requests have both inserted a PENDING job for one key
DuplicateJobs ==
    /\ Interleaved(last)
    /\ \E f, g \in exports : /\ f.reference_id # g.reference_id
                             /\ f.dedup_key = g.dedup_key
                             /\ f.status = "PENDING"
                             /\ g.status = "PENDING"

\* C28: a delivery that, when it starts, finds its job COMPLETED or
\* IN_PROGRESS does not run the export: it leaves the job's status,
\* started_at, file_url, file_size, row_count, completed_at and retry_count
\* as they were.
C28_RedeliveryNoOp ==
    [][\A e \in exports :
         (/\ last'.op = "export_task"
          /\ last'.req = e.reference_id
          /\ last'.result = "claimed"
          /\ e.status \in {"COMPLETED", "IN_PROGRESS"})
         => e \in exports']_vars

\* C29: in every reachable ledger, a job that is PENDING, IN_PROGRESS or
\* FAILED has file_url, file_size and row_count unset.
C29_FileFieldsOnlyOnCompleted ==
    \A e \in exports :
        e.status \in {"PENDING", "IN_PROGRESS", "FAILED"}
        => (e.file_url = None /\ e.file_size = None /\ e.row_count = None)

\* What holds of the three fields: a job that has never been COMPLETED, that
\* is, one whose completed_at is unset, has them unset.
FileFieldsOnlyAfterCompletion ==
    \A e \in exports :
        e.completed_at = None
        => (e.file_url = None /\ e.file_size = None /\ e.row_count = None)

\* the job is in the ledger with one of the given statuses
HasStatus(reference_id, statuses) ==
    \E e \in by_reference(exports, reference_id) : e.status \in statuses

EnqueuedJobSettles ==
    \A reference_id \in 1..MaxJobs :
        /\ (/\ HasStatus(reference_id, {"PENDING"})
            /\ MessagesOf(queue, reference_id) # {})
              ~> HasStatus(reference_id, {"COMPLETED", "FAILED"})
        /\ <>[](MessagesOf(queue, reference_id) = {})

\* C35: the deleted_count a cleanup sweep returns is the number of rows the
\* sweep removed from the ledger, also when the deletion of some objects
\* failed during the sweep.
C35_DeletedCount ==
    [][last'.op = "cleanup_old_exports"
       => (/\ exports' \subseteq exports
           /\ last'.deleted_count = Cardinality(exports \ exports'))]_vars

\* a sweep selected two rows, removed one and kept the one whose object
\* could not be deleted
C35_Witness ==
    /\ last.op = "cleanup_old_exports"
    /\ last.deleted_count = 1
    /\ Cardinality(last.req) = 2
    /\ \E e \in exports : e.reference_id \in last.req

\* C36: a status query changes no row of the ledger, whatever the job's
\* status and whether or not the minting of the URL succeeds.
C36_StatusQueryReadOnly ==
    [][last'.op = "get_export_status"
       => (exports' = exports /\ queue' = queue /\ next_id' = next_id)]_vars

\* a COMPLETED job has been queried and a signed URL returned, its row
\* still holding the location the uploader wrote
C36_Witness ==
    /\ last.op = "get_export_status"
    /\ last.code = 200
    /\ \E e \in by_reference(exports, last.req) :
          /\ e.status = "COMPLETED"
          /\ e.file_url[1].scheme = "s3"
          /\ last.body.file_url.scheme = "https"

\* the step turns a COMPLETED or FAILED row of the key into SUPERSEDED
Supersedes(dedup_key) ==
    \E e \in exports :
        /\ e.dedup_key = dedup_key
        /\ e.status \in {"COMPLETED", "FAILED"}
        /\ \E f \in by_reference(exports', e.reference_id) :
              f.status = "SUPERSEDED"

\* the rows the step adds to the ledger
NewRows == {f \in exports' : f.reference_id \notin Ids(exports)}

AtomicSupersessionWhenCreatingNew ==
    [][/\ \A e \in exports :
            Supersedes(e.dedup_key)
            => \E new \in NewRows : /\ new.status = "PENDING"
                                    /\ new.dedup_key = e.dedup_key
       /\ \A new \in NewRows :
          \A e \in exports' :
            (/\ e # new
             /\ e.dedup_key = new.dedup_key
             /\ ForceRefresh(last'.req) \/ DateTo(last'.req) = today)
                => e.status \notin {"COMPLETED", "FAILED"}
       /\ (last'.op = "create_export" /\ last'.commit = "failed")
            => (last'.code = 500 /\ exports' = exports)]_vars

\* C32: an execution that fails because the table identifier is invalid is
\* not followed by an automatic retry: the worker schedules no retry for
\* the job and, its message acknowledged, no message of the job remains.
C32_InvalidTableNotRetried ==
    [][(/\ last'.op = "export_task"
        /\ last'.error = Some("Invalid table name"))
       => (/\ last'.result # "retry"
           /\ last'.result # "lost"
                => MessagesOf(queue', last'.req) = {})]_vars

\* the number of parts a file of file_size bytes is read in
PartsOf(file_size) == (file_size + chunk_size - 1) \div chunk_size

\* C33: when _multipart_upload returns for a file read in k parts, the
\* upload was completed exactly once, with the list of all k parts: part
\* i of the list has part number i and the integrity tag of the i-th chunk
\* of the file; and every part is uploaded with the number that follows the
\* parts uploaded before it, while the upload is not yet completed.
C33_PartsInOrder ==
    /\ (s3.method = "multipart" /\ s3.result = "returned")
       => (/\ s3.completions = 1
           /\ Len(s3.completed_with) = PartsOf(s3.file_size)
           /\ \A i \in 1..Len(s3.completed_with) :
                 /\ s3.completed_with[i].PartNumber = i
                 /\ s3.completed_with[i].ETag =
                       ETag((i - 1) * chunk_size,
                            Min(chunk_size,
                                s3.file_size - (i - 1) * chunk_size)))
    /\ \A i \in 1..Len(s3.part_list) : s3.part_list[i].PartNumber = i
    /\ s3.part_list # <<>> /\ s3.result # "returned" => s3.completions = 0

\* a file of two chunks and one byte has been uploaded in three parts
C33_Witness ==
    /\ s3.method = "multipart"
    /\ s3.result = "returned"
    /\ s3.file_size = 2 * chunk_size + 1
    /\ Len(s3.completed_with) = 3

\* C34: for a source of any length read in chunks of any size >= 1,
\* _export_to_csv returns the number of source rows and writes the header
\* once, first, with the columns of the first row, followed by every source
\* row once, in source order; for an empty source it writes nothing and
\* returns 0.
C34_CsvComplete ==
    [][last'.op = "export_to_csv"
       => LET source == last'.req.source
              out == last'.value
          IN  /\ out.row_count = Len(source)
              /\ source = <<>> => out.csvfile = <<>>
              /\ source # <<>> =>
                    /\ Len(out.csvfile) = Len(source) + 1
                    /\ out.csvfile[1] = [line |-> "header",
                                         fieldnames |-> DOMAIN source[1]]
                    /\ \A i \in 1..Len(source) :
                          out.csvfile[i + 1] =
                              [line |-> "row", values |-> source[i]]]_vars

\* a source of seven rows has been exported in chunks of three: two full
\* chunks and a last one of a single row
C34_Witness ==
    /\ last.op = "export_to_csv"
    /\ Len(last.req.source) = 7
    /\ last.req.chunk_size = 3
    /\ last.value.row_count = 7

CreatedHasMessage ==
    [][(last'.op = "create_export" /\ last'.code = 201)
       => MessagesOf(queue', last'.body.reference_id) # {}]_vars

====
